---- MODULE Spec2Model ----
(***************************************************************************)
(* Model of stt_whisper_cli.py: the recording / transcription session.     *)
(*                                                                         *)
(* Three threads share the state: the foreground thread running main()'s   *)
(* loop, the audio backend's thread running Recorder._callback, and the    *)
(* timer thread running display_timer.  The operator (Enter keystrokes,    *)
(* Ctrl-C), the external recognizer process and the wall clock are the     *)
(* environment.  KeyboardInterrupt is raised in the foreground thread at   *)
(* whatever statement it is executing or blocked in; the only handler is   *)
(* the except clause around the whole loop.                                *)
(*                                                                         *)
(* The clock counts whole seconds.  Texts, the clipboard and the log file  *)
(* are sequences of characters; a formatted timestamp is one element.      *)
(* The audio device, the clipboard command and the file system are taken   *)
(* to succeed; the recognizer may exit with any status, with or without    *)
(* having written its output file.                                         *)
(*                                                                         *)
(* Spec is the program as main() runs it.  SpecFair adds the fair          *)
(* scheduling of the timer thread.  SpecApi adds a caller that starts the  *)
(* Recorder a second time while it is recording.                           *)
(***************************************************************************)
EXTENDS Integers, Sequences, FiniteSets, TLC

\* ---- bounds ----
MaxCycles == 2      \* recording cycles started in one session
MaxChunks == 2      \* chunks the audio backend delivers in one session
MaxTime   == 2      \* last value of the wall clock

\* ---- inputs ----
\* chunks of samples the audio backend may deliver (frames >= 1)
Chunks == { <<1>>, <<2, 3>> }
\* contents the recognizer may write to its .txt output
RawTexts == { <<" ">>, <<"h", "i", "\n">>, <<" ", "y", "o">> }
\* exit statuses of the recognizer process
ExitCodes == {0, 1}
\* clipboard content left by whatever ran before the session
PriorClipboard == <<"p">>
\* content of the log file when the session starts (absent file = empty)
PriorLogs == { <<>>, <<"o", "\n">> }

VARIABLES
    \* foreground thread (main)
    pc,                  \* statement the foreground thread is at
    args_append,         \* args.append
    args_output,         \* args.output is set
    session_transcripts, \* session_transcripts
    audio,               \* audio = recorder.stop()
    text,                \* text = transcribe(...)
    returncode,          \* result.returncode, 0 outside transcribe
    \* Recorder
    recording,           \* Recorder.recording
    audio_data,          \* Recorder.audio_data
    start_time,          \* Recorder._start_time
    stream,              \* Recorder.stream: "none", "active", "closed"
    \* audio thread
    cb_pc,               \* "idle" or "append" (inside _callback's if)
    cb_chunk,            \* indata of the callback in progress
    \* timer thread
    timer_pc,            \* "none", "check", "render", "final", "done"
    stop_event,          \* stop_event.is_set()
    display,             \* <<mins, secs>> last printed by the timer
    \* environment
    now,                 \* time() / datetime.now(), in seconds
    disk,                \* files in the temp directory: <<cycle, suffix>>
    txt_content,         \* content of the latest .txt file on disk
    clipboard,           \* clipboard content
    logFile,             \* content of args.output
    \* history (observations, never read by the program)
    cycle,               \* number of cycles started
    nchunks,             \* number of times _callback was entered
    delivered,           \* chunks delivered between start() and stop()
    accepted,            \* non-empty texts returned by transcribe, in order
    stamps,              \* timestamps of the records written, in order
    outcome,             \* how the current cycle went
    interruptedAt,       \* pc at which KeyboardInterrupt was raised
    snap,                \* clipboard, transcripts, log at the cycle's start
    used,                \* gateway steps taken in the current cycle
    log0,                \* log content when the session started
    arrived,             \* chunks _callback was entered with since start()
    late_renders,        \* renders of the running timer since stop was set
    counts,              \* recognizer runs, clipboard writes, log appends
                         \* of the current cycle
    \* a caller of Recorder.start other than main's loop
    leaked,              \* streams started and no longer held by the recorder
    rearm                \* <<start() was called while armed, the audio_data
                         \* it found>>

vars == << pc, args_append, args_output, session_transcripts, audio, text,
           returncode, recording, audio_data, start_time, stream, cb_pc,
           cb_chunk, timer_pc, stop_event, display, now, disk, txt_content,
           clipboard, logFile, cycle, nchunks, delivered, accepted, stamps,
           outcome, interruptedAt, snap, used, log0, arrived, late_renders,
           counts, leaked, rearm >>

mainVars   == << pc, audio, text, returncode >>
argVars    == << args_append, args_output >>
recVars    == << recording, audio_data, start_time, stream >>
cbVars     == << cb_pc, cb_chunk >>
timerVars  == << timer_pc, stop_event, display >>
pubVars    == << session_transcripts, clipboard, logFile >>
fileVars   == << disk, txt_content >>
histVars   == << cycle, nchunks, delivered, accepted, stamps, outcome,
                 interruptedAt, snap, used, log0 >>
obsVars    == << arrived, late_renders, counts >>
apiVars    == << leaked, rearm >>

\* ---- pure helpers ----

Whitespace == {" ", "\n"}

RECURSIVE LStrip(_)
LStrip(s) ==
    IF s # <<>> /\ Head(s) \in Whitespace THEN LStrip(Tail(s)) ELSE s

RECURSIVE RStrip(_)
RStrip(s) ==
    IF s # <<>> /\ s[Len(s)] \in Whitespace
    THEN RStrip(SubSeq(s, 1, Len(s) - 1))
    ELSE s

\* str.strip()
Strip(s) == RStrip(LStrip(s))

RECURSIVE Concatenate(_)
\* np.concatenate(chunks, axis=0)
Concatenate(chunks) ==
    IF chunks = <<>> THEN <<>>
    ELSE Head(chunks) \o Concatenate(Tail(chunks))

RECURSIVE Join(_)
\* "\n".join(texts)
Join(texts) ==
    IF texts = <<>> THEN <<>>
    ELSE IF Len(texts) = 1 THEN texts[1]
    ELSE texts[1] \o <<"\n">> \o Join(Tail(texts))

\* datetime.now().strftime("%Y-%m-%d %H:%M:%S")
Timestamp(t) == <<"ts", t>>

\* f"[{timestamp}]\n{text}\n\n"
Record(t, txt) == <<"[", Timestamp(t), "]", "\n">> \o txt \o <<"\n", "\n">>

\* Recorder.elapsed
Elapsed == IF start_time # 0 THEN now - start_time ELSE 0

\* the foreground thread has executed the first statement of Recorder.stop
\* and the stream is still open
StopBegun ==
    \/ pc = "stop_stream"
    \/ pc = "Stopped" /\ interruptedAt = "stop_stream"

\* spec.md's controller states
State ==
    CASE pc = "Idle" -> "Idle"
      [] pc \in {"spawn", "Armed"} -> "Armed"
      [] pc \in {"join", "stop_flag", "stop_stream", "stop_concat",
                 "check_audio"} -> "Draining"
      [] pc \in {"write_temp", "Transcribing", "transcribe_ret",
                 "unlink_temp", "check_text", "save_log"} -> "Transcribing"
      [] OTHER -> "Stopped"

TypeOK ==
    /\ pc \in {"Idle", "spawn", "Armed", "join", "stop_flag", "stop_stream",
               "stop_concat", "check_audio", "write_temp", "Transcribing",
               "transcribe_ret", "unlink_temp", "check_text", "save_log",
               "Stopped"}
    /\ args_append \in BOOLEAN /\ args_output \in BOOLEAN
    /\ recording \in BOOLEAN /\ stop_event \in BOOLEAN
    /\ stream \in {"none", "active", "closed"}
    /\ cb_pc \in {"idle", "append"}
    /\ timer_pc \in {"none", "check", "render", "final", "done"}
    /\ now \in 1..MaxTime + 1
    /\ cycle \in 0..MaxCycles + 1

Init ==
    /\ pc = "Idle"
    /\ args_append \in BOOLEAN
    /\ args_output \in BOOLEAN
    /\ session_transcripts = <<>>
    /\ audio = <<>>
    /\ text = <<>>
    /\ returncode = 0
    /\ recording = FALSE
    /\ audio_data = <<>>
    /\ start_time = 0
    /\ stream = "none"
    /\ cb_pc = "idle"
    /\ cb_chunk = <<>>
    /\ timer_pc = "none"
    /\ stop_event = FALSE
    /\ display = <<0, 0>>
    /\ now = 1
    /\ disk = {}
    /\ txt_content = <<>>
    /\ clipboard = PriorClipboard
    /\ logFile \in PriorLogs
    /\ cycle = 0
    /\ nchunks = 0
    /\ delivered = <<>>
    /\ accepted = <<>>
    /\ stamps = <<>>
    /\ outcome = "none"
    /\ interruptedAt = "none"
    /\ snap = <<clipboard, session_transcripts, logFile>>
    /\ used = {}
    /\ log0 = logFile
    /\ arrived = <<>>
    /\ late_renders = 0
    /\ counts = <<0, 0, 0>>
    /\ leaked = 0
    /\ rearm = <<FALSE, <<>>>>


\* ---- Recorder (foreground thread) ----

\* a start that keeps the previous buffer
ClearBufferKeep(buf) == buf

\* Recorder.start, line 43: self.audio_data = []
ClearBuffer(buf) == <<>>

\* input() returns on Enter, then recorder.start()
RecorderStart ==
    /\ pc = "Idle"
    /\ cycle < MaxCycles
    /\ audio_data' = ClearBuffer(audio_data)
    /\ recording' = TRUE
    /\ start_time' = now
    /\ stream' = "active"
    /\ pc' = "spawn"
    /\ cycle' = cycle + 1
    /\ delivered' = <<>>
    /\ outcome' = "none"
    /\ snap' = <<clipboard, session_transcripts, logFile>>
    /\ used' = {}
    /\ arrived' = <<>>
    /\ counts' = <<0, 0, 0>>
    /\ UNCHANGED << apiVars, late_renders,
                    audio, text, returncode, argVars, cbVars, timerVars, now,
                    pubVars, fileVars, nchunks, accepted, stamps,
                    interruptedAt, log0 >>

\* stop_event = threading.Event(); timer_thread.start()
SpawnTimer ==
    /\ pc = "spawn"
    /\ stop_event' = FALSE
    /\ timer_pc' = "check"
    /\ late_renders' = 0
    /\ pc' = "Armed"
    /\ UNCHANGED << apiVars, arrived, counts,
                    audio, text, returncode, argVars, recVars, cbVars,
                    display, now, pubVars, fileVars, histVars >>

\* input() returns on Enter, then stop_event.set()
SetStop ==
    /\ pc = "Armed"
    /\ stop_event' = TRUE
    /\ pc' = "join"
    /\ UNCHANGED << apiVars, obsVars,
                    audio, text, returncode, argVars, recVars, cbVars,
                    timer_pc, display, now, pubVars, fileVars, histVars >>

\* a join that does not wait
JoinReturnsAlways(tp) == TRUE

\* timer_thread.join() returns once the thread has ended
JoinReturns(tp) == tp = "done"

JoinTimer ==
    /\ pc = "join"
    /\ JoinReturns(timer_pc)
    /\ pc' = "stop_flag"
    /\ UNCHANGED << apiVars, obsVars,
                    audio, text, returncode, argVars, recVars, cbVars,
                    timerVars, now, pubVars, fileVars, histVars >>

\* Recorder.stop, line 67: self.recording = False
StopFlag ==
    /\ pc = "stop_flag"
    /\ recording' = FALSE
    /\ pc' = "stop_stream"
    /\ UNCHANGED << apiVars, obsVars,
                    audio, text, returncode, argVars, audio_data, start_time,
                    stream, cbVars, timerVars, now, pubVars, fileVars,
                    histVars >>

\* a stop() that returns while a callback is still running
CallbackQuiescedAlways(cp) == TRUE

\* line 68: stream.stop() returns once no callback is in progress
CallbackQuiesced(cp) == cp = "idle"

\* a stop() that leaves the stream as it is
CloseStreamSkipped(st) == st

\* lines 68-69: the stream after stop() and close()
CloseStream(st) == "closed"

\* Recorder.stop, lines 68-69: stream.stop() waits for the callback in
\* progress, then stream.close()
StopStream ==
    /\ pc = "stop_stream"
    /\ CallbackQuiesced(cb_pc)
    /\ stream' = CloseStream(stream)
    /\ pc' = "stop_concat"
    /\ UNCHANGED << apiVars, obsVars,
                    audio, text, returncode, argVars, recording, audio_data,
                    start_time, cbVars, timerVars, now, pubVars, fileVars,
                    histVars >>

\* Recorder.stop, lines 70-72, and the assignment audio = recorder.stop()
StopConcat ==
    /\ pc = "stop_concat"
    /\ audio' = IF audio_data # <<>> THEN Concatenate(audio_data) ELSE <<>>
    /\ pc' = "check_audio"
    /\ UNCHANGED << apiVars, obsVars,
                    text, returncode, argVars, recVars, cbVars, timerVars,
                    now, pubVars, fileVars, histVars >>

\* ---- audio thread ----

\* Recorder._callback is entered with a chunk and tests self.recording
CallbackEnter ==
    /\ stream = "active"
    /\ cb_pc = "idle"
    /\ nchunks < MaxChunks
    /\ nchunks' = nchunks + 1
    /\ \E chunk \in Chunks :
         /\ IF recording
            THEN cb_pc' = "append" /\ cb_chunk' = chunk
            ELSE UNCHANGED cbVars
         /\ delivered' =
              IF StopBegun THEN delivered ELSE Append(delivered, chunk)
         /\ arrived' = Append(arrived, chunk)
    /\ UNCHANGED << apiVars, late_renders, counts,
                    mainVars, argVars, recVars, timerVars, now, pubVars,
                    fileVars, cycle, accepted, stamps, outcome,
                    interruptedAt, snap, used, log0 >>

\* Recorder._callback, line 58: self.audio_data.append(indata.copy())
CallbackAppend ==
    /\ cb_pc = "append"
    /\ audio_data' = Append(audio_data, cb_chunk)
    /\ cb_pc' = "idle"
    /\ cb_chunk' = <<>>
    /\ UNCHANGED << apiVars, obsVars,
                    mainVars, argVars, recording, start_time, stream,
                    timerVars, now, pubVars, fileVars, histVars >>

\* ---- timer thread (display_timer) ----

\* a loop test that never sees the event
StopSeenNever(ev) == FALSE

\* line 122: stop_event.is_set()
StopSeen(ev) == ev

\* while not stop_event.is_set()
TimerCheck ==
    /\ timer_pc = "check"
    /\ timer_pc' = IF StopSeen(stop_event) THEN "final" ELSE "render"
    /\ UNCHANGED << apiVars, obsVars,
                    mainVars, argVars, recVars, cbVars, stop_event, display,
                    now, pubVars, fileVars, histVars >>

\* elapsed = recorder.elapsed(); divmod; print; sleep(0.1)
TimerRender ==
    /\ timer_pc = "render"
    /\ display' = << Elapsed \div 60, Elapsed % 60 >>
    /\ late_renders' = IF stop_event THEN late_renders + 1 ELSE late_renders
    /\ timer_pc' = "check"
    /\ UNCHANGED << apiVars, arrived, counts,
                    mainVars, argVars, recVars, cbVars, stop_event, now,
                    pubVars, fileVars, histVars >>

\* print() after the loop; the thread ends
TimerFinal ==
    /\ timer_pc = "final"
    /\ timer_pc' = "done"
    /\ late_renders' = 0
    /\ UNCHANGED << apiVars, arrived, counts,
                    mainVars, argVars, recVars, cbVars, stop_event, display,
                    now, pubVars, fileVars, histVars >>

\* ---- environment ----

\* the wall clock advances; statements take no time, the waits for the
\* operator (lines 177, 187) and for the recognizer (line 76) do
Tick ==
    /\ now < MaxTime
    /\ pc \in {"Idle", "Armed", "Transcribing"}
    /\ now' = now + 1
    /\ UNCHANGED << apiVars, obsVars,
                    mainVars, argVars, recVars, cbVars, timerVars, pubVars,
                    fileVars, histVars >>

\* Ctrl-C: KeyboardInterrupt in the foreground thread, caught at line 232
Interrupt ==
    /\ pc # "Stopped"
    /\ pc' = "Stopped"
    /\ interruptedAt' = pc
    /\ UNCHANGED << apiVars, obsVars,
                    audio, text, returncode, argVars, recVars, cbVars,
                    timerVars, now, pubVars, fileVars, cycle, nchunks,
                    delivered,
                    accepted, stamps, outcome, snap, used, log0 >>

\* ---- the cycle after the drain (foreground thread) ----

\* an empty recording ends the loop
AfterEmptyBreak == "Stopped"

\* line 194: continue
AfterEmpty == "Idle"

\* a test that never finds the recording empty
IsEmptyNever(a) == FALSE

\* line 192: len(audio) == 0
IsEmpty(a) == Len(a) = 0

\* lines 192-197
CheckAudio ==
    /\ pc = "check_audio"
    /\ IF IsEmpty(audio)
       THEN /\ pc' = AfterEmpty
            /\ outcome' = "empty"
       ELSE /\ pc' = "write_temp"
            /\ UNCHANGED outcome
    /\ UNCHANGED << apiVars, obsVars,
                    audio, text, returncode, argVars, recVars, cbVars,
                    timerVars, now, pubVars, fileVars, cycle, nchunks,
                    delivered,
                    accepted, stamps, interruptedAt, snap, used, log0 >>

\* lines 200-205: the temporary .wav is created and written; whisper is
\* started by subprocess.run
WriteTemp ==
    /\ pc = "write_temp"
    /\ disk' = disk \cup { <<cycle, "wav">> }
    /\ used' = used \cup {"temp"}
    /\ pc' = "Transcribing"
    /\ UNCHANGED << apiVars, obsVars,
                    audio, text, returncode, argVars, recVars, cbVars,
                    timerVars, now, pubVars, txt_content, cycle, nchunks,
                    delivered,
                    accepted, stamps, outcome, interruptedAt, snap, log0 >>

\* transcribe, lines 76-91: the recognizer process ends; subprocess.run
\* returns its status.  It may or may not have written <stem>.txt.
RecognizerExit ==
    /\ pc = "Transcribing"
    /\ \E rc \in ExitCodes, wrote \in BOOLEAN, raw \in RawTexts :
         /\ returncode' = rc
         /\ IF wrote
            THEN /\ disk' = disk \cup { <<cycle, "txt">> }
                 /\ txt_content' = raw
            ELSE UNCHANGED fileVars
         /\ outcome' = IF rc # 0 THEN "nonzero"
                       ELSE IF ~wrote THEN "missing"
                       ELSE IF Strip(raw) = <<>> THEN "blank"
                       ELSE "text"
    /\ used' = used \cup {"recognizer"}
    /\ counts' = <<counts[1] + 1, counts[2], counts[3]>>
    /\ pc' = "transcribe_ret"
    /\ UNCHANGED << apiVars, arrived, late_renders,
                    audio, text, argVars, recVars, cbVars, timerVars, now,
                    pubVars, cycle, nchunks, delivered, accepted, stamps,
                    interruptedAt, snap, log0 >>

\* a transcribe that does not test the exit status
TranscribeTextAnyStatus(rc, exists, content) ==
    IF exists THEN Strip(content) ELSE <<>>

\* transcribe, lines 92-102: the text it returns
TranscribeText(rc, exists, content) ==
    IF rc # 0 THEN <<>>
    ELSE IF exists THEN Strip(content)
    ELSE <<>>

\* transcribe, lines 92-102: the .txt is unlinked only where it is read
TranscribeReturn ==
    /\ pc = "transcribe_ret"
    /\ LET exists == <<cycle, "txt">> \in disk
           result == TranscribeText(returncode, exists, txt_content)
       IN  /\ text' = result
           /\ IF returncode = 0 /\ exists
              THEN /\ disk' = disk \ { <<cycle, "txt">> }
                   /\ txt_content' = <<>>
              ELSE UNCHANGED fileVars
           /\ accepted' = IF result # <<>> THEN Append(accepted, result)
                          ELSE accepted
    /\ returncode' = 0
    /\ pc' = "unlink_temp"
    /\ UNCHANGED << apiVars, obsVars,
                    audio, argVars, recVars, cbVars, timerVars, now, pubVars,
                    cycle, nchunks, delivered, stamps, outcome,
                    interruptedAt, snap, used, log0 >>

\* line 207: temp_path.unlink()
UnlinkTemp ==
    /\ pc = "unlink_temp"
    /\ disk' = disk \ { <<cycle, "wav">> }
    /\ pc' = "check_text"
    /\ UNCHANGED << apiVars, obsVars,
                    audio, text, returncode, argVars, recVars, cbVars,
                    timerVars, now, pubVars, txt_content, histVars >>

\* a session list that grows in either mode
AppendTranscriptAlways(app, transcripts, txt) == Append(transcripts, txt)

\* lines 212-214: session_transcripts.append(text) in append mode only
AppendTranscript(app, transcripts, txt) ==
    IF app THEN Append(transcripts, txt) ELSE transcripts

\* a clipboard text that is always the latest transcript alone
ClipboardTextLatest(app, transcripts, txt) == txt

\* lines 213-217: clipboard_text, given the list after the append
ClipboardText(app, transcripts, txt) ==
    IF app THEN Join(transcripts) ELSE txt

\* lines 209-218 and 227-228: the clipboard
HandleClipboard ==
    /\ pc = "check_text"
    /\ IF text # <<>>
       THEN /\ session_transcripts' =
                 AppendTranscript(args_append, session_transcripts, text)
            /\ clipboard' =
                 ClipboardText(args_append, session_transcripts', text)
            /\ counts' = <<counts[1], counts[2] + 1, counts[3]>>
            /\ pc' = "save_log"
       ELSE /\ pc' = "Idle"
            /\ UNCHANGED << session_transcripts, clipboard, counts >>
    /\ UNCHANGED << apiVars, arrived, late_renders,
                    audio, text, returncode, argVars, recVars, cbVars,
                    timerVars, now, logFile, fileVars, histVars >>

\* a write that puts the record twice
WriteLogTwice(old, rec) == old \o rec \o rec

\* a write that truncates the file
WriteLogTruncate(old, rec) == rec

\* save_transcription, lines 116-117: open(output_fp, "a") and write
WriteLog(old, rec) == old \o rec

\* lines 220-230: save_transcription when args.output is set
SaveLog ==
    /\ pc = "save_log"
    /\ IF args_output
       THEN /\ logFile' = WriteLog(logFile, Record(now, text))
            /\ stamps' = Append(stamps, now)
            /\ counts' = <<counts[1], counts[2], counts[3] + 1>>
       ELSE UNCHANGED << logFile, stamps, counts >>
    /\ pc' = "Idle"
    /\ UNCHANGED << apiVars, arrived, late_renders,
                    audio, text, returncode, argVars, recVars, cbVars,
                    timerVars, now, session_transcripts, clipboard, fileVars,
                    cycle, nchunks, delivered, accepted, outcome,
                    interruptedAt, snap, used, log0 >>

Next ==
    \/ RecorderStart
    \/ SpawnTimer
    \/ SetStop
    \/ JoinTimer
    \/ StopFlag
    \/ StopStream
    \/ StopConcat
    \/ CheckAudio
    \/ WriteTemp
    \/ RecognizerExit
    \/ TranscribeReturn
    \/ UnlinkTemp
    \/ HandleClipboard
    \/ SaveLog
    \/ CallbackEnter
    \/ CallbackAppend
    \/ TimerCheck
    \/ TimerRender
    \/ TimerFinal
    \/ Tick
    \/ Interrupt

Spec == Init /\ [][Next]_vars

\* the timer thread is a running thread: the interpreter keeps scheduling
\* it, and its sleep(0.1) returns
SpecFair ==
    /\ Spec
    /\ WF_vars(TimerCheck)
    /\ WF_vars(TimerRender)
    /\ WF_vars(TimerFinal)

\* ---- Recorder driven by a caller that starts it twice ----

\* Recorder.start, lines 42-52, called while a recording is in progress:
\* there is no test of self.recording; the list is replaced and a new
\* InputStream is created and started, the old one is neither stopped nor
\* closed
ArmAgain ==
    /\ pc = "Armed"
    /\ ~rearm[1]
    /\ rearm' = <<TRUE, audio_data>>
    /\ audio_data' = ClearBuffer(audio_data)
    /\ recording' = TRUE
    /\ start_time' = now
    /\ stream' = "active"
    /\ leaked' = leaked + 1
    /\ UNCHANGED << mainVars, argVars, cbVars, timerVars, now, pubVars,
                    fileVars, histVars, obsVars >>

NextApi == Next \/ ArmAgain

SpecApi == Init /\ [][NextApi]_vars

\* ---- properties ----

RECURSIVE SumLen(_)
SumLen(chunks) ==
    IF chunks = <<>> THEN 0 ELSE Len(Head(chunks)) + SumLen(Tail(chunks))

IsPrefix(s, t) == Len(s) <= Len(t) /\ SubSeq(t, 1, Len(s)) = s

RECURSIVE Records(_, _)
\* the records of texts txts written at times ts, one after the other
Records(ts, txts) ==
    IF ts = <<>> \/ txts = <<>> THEN <<>>
    ELSE Record(Head(ts), Head(txts)) \o Records(Tail(ts), Tail(txts))

\* where the foreground thread is, or was when it was interrupted
Position == IF pc = "Stopped" THEN interruptedAt ELSE pc

\* clipboard, transcript sequence and log are as they were when the
\* current cycle started
Untouched == <<clipboard, session_transcripts, logFile>> = snap

\* C1: the buffer Recorder.stop returns is the concatenation, in delivery
\* order, of the chunks delivered between this cycle's start and its stop;
\* its length is the sum of their lengths; nothing of an earlier cycle is
\* in it.
C1_DrainedIsDelivered ==
    pc = "check_audio" =>
        /\ audio = Concatenate(delivered)
        /\ Len(audio) = SumLen(delivered)

\* a second cycle's drain of one chunk, after a cycle that recorded one
C1_Witness ==
    /\ pc = "check_audio"
    /\ cycle = 2
    /\ accepted # <<>>
    /\ delivered = << <<2, 3>> >>
    /\ audio = <<2, 3>>

\* C2: when stop returned an empty buffer the cycle goes back to Idle
\* without the gateway: no temporary file, no recognizer call, clipboard,
\* transcript sequence and log unchanged.
C2_EmptySkipsGateway ==
    ( /\ cycle >= 1
      /\ audio = <<>>
      /\ pc \in {"check_audio", "write_temp", "Transcribing",
                 "transcribe_ret", "unlink_temp", "check_text", "save_log",
                 "Idle"} )
    => /\ pc \in {"check_audio", "Idle"}
       /\ used = {}
       /\ Untouched

\* an empty second cycle after a cycle that published a transcript
C2_Witness ==
    /\ pc = "Idle"
    /\ cycle = 2
    /\ outcome = "empty"
    /\ audio = <<>>
    /\ accepted # <<>>

\* C3: once the transcription step (transcribe and the unlink after it) has
\* returned, neither the cycle's .wav nor its .txt is on disk.
C3_NoFilesLeft ==
    pc \in {"check_text", "save_log"} =>
        /\ <<cycle, "wav">> \notin disk
        /\ <<cycle, "txt">> \notin disk

\* C4: between cycles, once a non-empty text was returned, the clipboard is
\* the newline-join of all accepted texts in append mode and the latest
\* text otherwise.
C4_Clipboard ==
    (pc = "Idle" /\ accepted # <<>>) =>
        clipboard = IF args_append THEN Join(accepted)
                    ELSE accepted[Len(accepted)]

\* "hi" then "yo" in append mode
C4_Witness ==
    /\ pc = "Idle"
    /\ args_append
    /\ accepted = << <<"h", "i">>, <<"y", "o">> >>
    /\ clipboard = <<"h", "i", "\n", "y", "o">>

\* C5: with a log path, the log only grows at its end, and between cycles
\* it is what it was at the session's start followed by one record per
\* cycle that returned non-empty text, in cycle order.
C5_LogAppendOnly ==
    [][ /\ IsPrefix(logFile, logFile')
        /\ (args_output' /\ pc' = "Idle") =>
              /\ Len(stamps') = Len(accepted')
              /\ logFile' = log0' \o Records(stamps', accepted') ]_vars

\* two records behind earlier content, after a cycle that logged nothing
C5_Witness ==
    /\ pc = "Idle"
    /\ args_output
    /\ log0 # <<>>
    /\ Len(stamps) = 2
    /\ logFile = log0 \o Record(stamps[1], accepted[1])
                      \o Record(stamps[2], accepted[2])

\* C6: after a non-zero exit, or a zero exit without the output file,
\* transcribe returns empty text, the cycle changes neither clipboard nor
\* transcript sequence nor log, and the loop goes back to Idle.
C6_RecognizerFailure ==
    ( /\ outcome \in {"nonzero", "missing"}
      /\ pc \in {"unlink_temp", "check_text", "save_log", "Idle"} )
    => /\ text = <<>>
       /\ pc # "save_log"
       /\ Untouched

\* a failed second cycle, its output file written, after a published one
C6_Witness ==
    /\ pc = "Idle"
    /\ cycle = 2
    /\ outcome = "nonzero"
    /\ <<2, "txt">> \in disk
    /\ accepted # <<>>
    /\ clipboard = accepted[1]

\* C7: from the moment Recorder.stop is called the timer thread has ended.
C7_TimerDoneBeforeStop ==
    Position \in {"stop_flag", "stop_stream", "stop_concat", "check_audio",
                  "write_temp", "Transcribing", "transcribe_ret",
                  "unlink_temp", "check_text", "save_log"}
    => timer_pc = "done"

\* stop is under way after the timer rendered a second of recording
C7_Witness ==
    /\ pc = "stop_stream"
    /\ timer_pc = "done"
    /\ display = <<0, 1>>

\* C8: in Stopped the capture stream is not open and no temporary audio
\* file is on disk.
C8_StoppedClean ==
    pc = "Stopped" =>
        /\ stream # "active"
        /\ \A c \in 1..cycle : <<c, "wav">> \notin disk

\* C9: the loop is never stopped while the recognizer call is in flight.
C9_NoStopMidTranscription ==
    pc = "Stopped" => interruptedAt # "Transcribing"

C11_ElapsedZeroUnarmed ==
    ~recording => Elapsed = 0

\* C12: a start while already armed is refused: it neither clears the
\* buffer of the recording in progress nor opens a second stream.
C12_RearmRefused ==
    rearm[1] =>
        /\ leaked = 0
        /\ IsPrefix(rearm[2], audio_data)

\* C13: once stop_event is set the timer renders at most once more, prints
\* its newline and ends, so the join returns when the timer thread is
\* scheduled fairly; and the timer never keeps the foreground thread from
\* taking the Enter that stops the recording.
C13_TimerEnds ==
    /\ [](late_renders <= 1)
    /\ [](pc = "Armed" => ENABLED SetStop)
    /\ (stop_event /\ timer_pc # "done") ~> (timer_pc = "done")

\* the timer, having rendered once after the stop signal, has left its loop
C13_Witness ==
    /\ pc = "join"
    /\ stop_event
    /\ late_renders = 1
    /\ timer_pc = "final"

\* C14: a timer thread is alive only during the Armed phase that spawned
\* it, up to the join; none is alive in Idle, Transcribing or Stopped.
C14_TimerOnlyWhileArmed ==
    timer_pc \in {"check", "render", "final"} => pc \in {"Armed", "join"}

\* C15: every utterance is published once.  In any cycle the recognizer
\* runs, the clipboard is written and the log is appended to at most once.
\* A finished cycle whose recognizer gave non-empty text has written the
\* clipboard once and, with a log path, appended one record, of this
\* cycle's text only (none without a log path); the clipboard holds this
\* text alone, or in append mode the earlier sequence joined with it.  A
\* finished cycle without text has written neither.
C15_PublishedOnce ==
    /\ counts[1] <= 1 /\ counts[2] <= 1 /\ counts[3] <= 1
    /\ (pc = "Idle" /\ cycle >= 1 /\ outcome = "text") =>
           /\ counts[1] = 1
           /\ counts[2] = 1
           /\ counts[3] = IF args_output THEN 1 ELSE 0
           /\ logFile = IF args_output
                        THEN snap[3] \o Record(stamps[Len(stamps)], text)
                        ELSE snap[3]
           /\ clipboard = IF args_append
                          THEN Join(Append(snap[2], text))
                          ELSE text
    /\ (pc = "Idle" /\ cycle >= 1 /\ outcome # "text") =>
           /\ counts[2] = 0
           /\ counts[3] = 0

\* a second utterance published to the clipboard and the log, once each
C15_Witness ==
    /\ pc = "Idle"
    /\ cycle = 2
    /\ outcome = "text"
    /\ args_output /\ args_append
    /\ Len(accepted) = 2
    /\ counts = <<1, 1, 1>>

\* C16: with chunks delivered by the audio thread while stop() runs, the
\* buffer holds whole chunks only, a prefix of the chunks delivered since
\* start() in their order; what stop() returned is the concatenation of
\* that prefix, and nothing is appended once stop() has returned.
C16_DrainIsPrefix ==
    /\ IsPrefix(audio_data, arrived)
    /\ Position \in {"check_audio", "write_temp", "Transcribing",
                     "transcribe_ret", "unlink_temp", "check_text",
                     "save_log", "Idle"}
       => /\ cb_pc = "idle"
          /\ audio = Concatenate(audio_data)

\* one chunk in the drained buffer, a second delivered during stop() absent
C16_Witness ==
    /\ pc = "check_audio"
    /\ Len(arrived) = 2
    /\ Len(audio_data) = 1
    /\ audio = arrived[1]

\* the session list is empty without append mode; with it, it is the list
\* the cycle started with, or that list and the cycle's non-empty text
TranscriptsGated ==
    /\ ~args_append => session_transcripts = <<>>
    /\ \/ session_transcripts = snap[2]
       \/ /\ args_append
          /\ text # <<>>
          /\ session_transcripts = Append(snap[2], text)
    /\ \A i \in 1..Len(session_transcripts) : session_transcripts[i] # <<>>

\* C17: the session transcript sequence stays empty without append mode;
\* in append mode a cycle leaves it alone or adds one non-empty text at
\* its end, so an earlier value is a prefix of every later one; with a log
\* path as well, at every return to Idle the records written in the
\* session carry the texts of the sequence, in order.
C17_TranscriptsAppendOnly ==
    [][ /\ IsPrefix(session_transcripts, session_transcripts')
        /\ Len(session_transcripts') <= Len(session_transcripts) + 1
        /\ TranscriptsGated'
        /\ (args_append' /\ args_output' /\ pc' = "Idle") =>
               logFile' = log0' \o Records(stamps', session_transcripts')
      ]_vars

\* append mode with a log: two texts in the list and in the log
C17_Witness ==
    /\ pc = "Idle"
    /\ args_append /\ args_output
    /\ session_transcripts = << <<"y", "o">>, <<"h", "i">> >>
    /\ logFile = log0 \o Records(stamps, session_transcripts)
    /\ Len(stamps) = 2

\* the moves of the controller between spec.md's states
Moves ==
    { <<"Idle", "Armed">>, <<"Armed", "Draining">>,
      <<"Draining", "Transcribing">>, <<"Draining", "Idle">>,
      <<"Transcribing", "Idle">> }
    \cup { <<st, "Stopped">> :
             st \in {"Idle", "Armed", "Draining", "Transcribing"} }
    \cup { <<st, st>> :
             st \in {"Idle", "Armed", "Draining", "Transcribing", "Stopped"} }

\* while the gateway is at work the stream is closed, the recorder unarmed
\* and the timer ended; while the loop records, no temporary audio file
\* is on disk
NoOverlap ==
    /\ pc \in {"write_temp", "Transcribing", "transcribe_ret", "unlink_temp"}
       => /\ stream = "closed"
          /\ ~recording
          /\ timer_pc = "done"
    /\ (pc # "Stopped" /\ (recording \/ stream = "active"))
       => /\ \A c \in 1..cycle : <<c, "wav">> \notin disk
          /\ State \in {"Armed", "Draining"}

\* C18: capture and transcription never overlap: the recognizer runs only
\* with the stream stopped and closed and the timer joined, the recorder is
\* started again only after the recognizer call returned and the temporary
\* file was deleted, and the controller moves only along
\* Idle -> Armed -> Draining -> (Transcribing ->) Idle, or to Stopped.
C18_NoOverlap ==
    [][ NoOverlap' /\ <<State, State'>> \in Moves ]_vars

\* a second recording's recognizer call in flight
C18_Witness ==
    /\ pc = "Transcribing"
    /\ cycle = 2
    /\ accepted # <<>>
    /\ stream = "closed"
    /\ timer_pc = "done"
    /\ disk = { <<2, "wav">> }
====
